---- MODULE Spec2Model ----
(***************************************************************************)
(* A state-machine model of the terminal text editor in src/src/main.rs.   *)
(*                                                                         *)
(* Strings are sequences of UTF-8 bytes (integers), so that len(), the     *)
(* byte-indexed String::insert / remove / truncate / slicing and the       *)
(* char-wise iteration of render_row / get_render_x keep the units the     *)
(* source gives them.  A row is a record [row_content, render].            *)
(*                                                                         *)
(* One step of the model is one of: a startup step of main, one frame      *)
(* (Output::refresh_screen), one key read and dispatched by                *)
(* Editor::process_keypress, one key read and handled by the prompt!       *)
(* loop, or the teardown (Drop for CleanUp).                               *)
(***************************************************************************)
EXTENDS Integers, Sequences, FiniteSets, TLC

\* ------------------------------------------------------------------ bounds
\* Largest size in bytes of the serialized buffer (and of a file loaded at
\* startup): a key that would grow the buffer past it is not pressed.
MaxBytes == 3
\* Largest value the dirty counter (a u64 in the source) takes.
MaxDirty == 3
\* Largest length in bytes of the Save-As scratch string.
MaxInput == 1
\* The text area of the terminal: terminal::size() minus the two bars.
ScreenRows == 2
ScreenCols == 2

\* ------------------------------------------------------- program constants
TAB_STOP == 8
QUIT_TIMES == 3
TAB == 9
LF == 10
CR == 13
SPACE == 32

\* The characters of the model, each the sequence of its UTF-8 bytes:
\* 'a', '\t' and a two-byte character (U+00E9).
CharA == <<97>>
CharTab == <<TAB>>
CharE == <<195, 169>>
\* KeyCode::Char(ch) | KeyCode::Tab, as the main loop receives them.
TypedChars == {CharA, CharTab, CharE}
\* KeyCode::Char(ch) | KeyCode::Tab, as the prompt receives them.
PromptChars == {CharA}

\* ------------------------------------------------------------ byte strings
Min(a, b) == IF a < b THEN a ELSE b

\* A UTF-8 continuation byte (10xxxxxx).
IsCont(b) == b \in 128..191

\* The number of characters of a byte string.
CharCount(s) == Cardinality({i \in 1..Len(s) : ~IsCont(s[i])})

\* str::is_char_boundary(i), i a 0-based byte index.
IsCharBoundary(s, i) ==
    \/ i = 0
    \/ i = Len(s)
    \/ (i > 0 /\ i < Len(s) /\ ~IsCont(s[i + 1]))

\* The length in bytes of the character that starts at 0-based index i.
RECURSIVE ContRun(_, _)
ContRun(s, j) ==
    IF j <= Len(s) /\ IsCont(s[j]) THEN 1 + ContRun(s, j + 1) ELSE 0
CharLenAt(s, i) == 1 + ContRun(s, i + 2)

\* s[..i] and s[i..] (the caller has checked the boundary).
Prefix(s, i) == SubSeq(s, 1, i)
Suffix(s, i) == SubSeq(s, i + 1, Len(s))

\* String::insert(at, ch) and String::remove(at) on a checked position.
StrInsert(s, at, ch) == Prefix(s, at) \o ch \o Suffix(s, at)
StrRemove(s, at) == Prefix(s, at) \o Suffix(s, at + CharLenAt(s, at))

\* String::pop(): removes the last character, if any.
RECURSIVE LastCharStart(_, _)
LastCharStart(s, i) ==
    IF i > 1 /\ IsCont(s[i]) THEN LastCharStart(s, i - 1) ELSE i
StrPop(s) == IF Len(s) = 0 THEN s ELSE SubSeq(s, 1, LastCharStart(s, Len(s)) - 1)

Spaces(n) == [i \in 1..n |-> SPACE]

\* All strings of at most n bytes made of the characters of alphabet.
RECURSIVE StringsUpTo(_, _)
StringsUpTo(alphabet, n) ==
    IF n = 0 THEN {<<>>}
    ELSE LET shorter == StringsUpTo(alphabet, n - 1)
         IN shorter \cup {s \o c : s \in shorter, c \in alphabet}

BoundedStrings(alphabet, n) == {s \in StringsUpTo(alphabet, n) : Len(s) <= n}

\* --------------------------------------------------------------- rendering
\* EditorRows::render_row: the loop over row_content.chars().  index counts
\* the rendered characters; the bytes of a multi-byte character are pushed
\* with the character (push(c)), the lead byte counting it.
RECURSIVE RenderFrom(_, _, _, _)
RenderFrom(content, i, index, render) ==
    IF i > Len(content) THEN render
    ELSE LET b == content[i] IN
         IF IsCont(b) THEN RenderFrom(content, i + 1, index, Append(render, b))
         ELSE IF b = TAB
              THEN LET first == index + 1
                       pad == (TAB_STOP - (first % TAB_STOP)) % TAB_STOP
                   IN RenderFrom(content, i + 1, first + pad,
                                 render \o Spaces(1 + pad))
              ELSE RenderFrom(content, i + 1, index + 1, Append(render, b))

render_row(content) == RenderFrom(content, 1, 0, <<>>)

\* Row::new followed by render_row, as insert_row and from_file build a row.
NewRow(content) == [row_content |-> content, render |-> render_row(content)]

\* CursorController::get_render_x on the checked slice row_content[..cursor_x]:
\* the fold over its characters.
RECURSIVE RenderXFold(_, _, _)
RenderXFold(s, i, rx) ==
    IF i > Len(s) THEN rx
    ELSE IF IsCont(s[i]) THEN RenderXFold(s, i + 1, rx)
    ELSE IF s[i] = TAB
         THEN RenderXFold(s, i + 1, rx + (TAB_STOP - 1) - (rx % TAB_STOP) + 1)
         ELSE RenderXFold(s, i + 1, rx + 1)

\* Mutant of get_render_x: tabs are taken to be one column wide.
get_render_x_flat(content, cx) == CharCount(Prefix(content, cx))

get_render_x(content, cx) == RenderXFold(Prefix(content, cx), 1, 0)

\* ------------------------------------------------------------- load / save
\* str::lines(): the pieces of split_inclusive('\n'), each without its final
\* "\n" and, when it had one, without a "\r" before it.  The standard library
\* of older toolchains (split_terminator('\n') and LinesAnyMap) also took a
\* "\r" off a last line that has no "\n": bare_cr tells which library it is.
RECURSIVE SplitInclusive(_, _, _)
SplitInclusive(s, i, piece) ==
    IF i > Len(s) THEN (IF piece = <<>> THEN <<>> ELSE <<piece>>)
    ELSE IF s[i] = LF
         THEN <<Append(piece, LF)>> \o SplitInclusive(s, i + 1, <<>>)
         ELSE SplitInclusive(s, i + 1, Append(piece, s[i]))

StripCR(line) ==
    IF Len(line) > 0 /\ line[Len(line)] = CR
    THEN SubSeq(line, 1, Len(line) - 1)
    ELSE line

StripLine(piece, bare_cr) ==
    IF Len(piece) > 0 /\ piece[Len(piece)] = LF
    THEN StripCR(SubSeq(piece, 1, Len(piece) - 1))
    ELSE IF bare_cr THEN StripCR(piece) ELSE piece

Lines(s, bare_cr) ==
    LET pieces == SplitInclusive(s, 1, <<>>)
    IN [k \in 1..Len(pieces) |-> StripLine(pieces[k], bare_cr)]

\* EditorRows::from_file: one rendered row per line of the file.
from_file(contents, bare_cr) ==
    LET ls == Lines(contents, bare_cr) IN [k \in 1..Len(ls) |-> NewRow(ls[k])]

\* The contents string of EditorRows::save: the rows joined by "\n".
RECURSIVE JoinRows(_, _)
JoinRows(rs, k) ==
    IF k > Len(rs) THEN <<>>
    ELSE IF k = Len(rs) THEN rs[k].row_content
    ELSE rs[k].row_content \o <<LF>> \o JoinRows(rs, k + 1)

\* Mutant of Serialize: every row, the last one too, is followed by "\n".
Serialize_trailing(rs) ==
    IF rs = <<>> THEN <<>> ELSE JoinRows(rs, 1) \o <<LF>>

Serialize(rs) == JoinRows(rs, 1)

\* ------------------------------------------------------- cursor controller
RowLen(rs, y) == Len(rs[y + 1].row_content)

\* The match on the direction in CursorController::move_cursor: the new
\* <<cursor_x, cursor_y>>, before the clamp.
cursor_step(direction, rs, cx, cy) ==
    LET n == Len(rs) IN
    CASE direction = "Up" -> <<cx, IF cy > 0 THEN cy - 1 ELSE 0>>
      [] direction = "Left" ->
           IF cx # 0 THEN <<cx - 1, cy>>
           ELSE IF cy > 0 THEN <<RowLen(rs, cy - 1), cy - 1>>
           ELSE <<cx, cy>>
      [] direction = "Down" -> IF cy < n THEN <<cx, cy + 1>> ELSE <<cx, cy>>
      [] direction = "Right" ->
           IF cy < n
           THEN IF cx < RowLen(rs, cy) THEN <<cx + 1, cy>>
                ELSE IF cx = RowLen(rs, cy) THEN <<0, cy + 1>>
                ELSE <<cx, cy>>
           ELSE <<cx, cy>>
      [] direction = "End" ->
           IF cy < n THEN <<RowLen(rs, cy), cy>> ELSE <<cx, cy>>
      [] direction = "Home" -> <<0, cy>>

\* Mutant of move_cursor: the final clamp of cursor_x is missing.
move_cursor_unclamped(direction, rs, cx, cy) ==
    LET moved == cursor_step(direction, rs, cx, cy)
    IN [cursor_x |-> moved[1], cursor_y |-> moved[2]]

\* CursorController::move_cursor: the match on the direction, then the clamp
\* of cursor_x to the length of the row the cursor is on (0 past the last).
move_cursor(direction, rs, cx, cy) ==
    LET moved == cursor_step(direction, rs, cx, cy)
        y == moved[2]
        row_len == IF y < Len(rs) THEN RowLen(rs, y) ELSE 0
    IN [cursor_x |-> Min(moved[1], row_len), cursor_y |-> y]

Directions == {"Up", "Down", "Left", "Right", "Home", "End"}

\* The (0..win_size.1).for_each of the PageUp / PageDown arm.
RECURSIVE RepeatMove(_, _, _, _, _)
RepeatMove(direction, times, rs, cx, cy) ==
    IF times = 0 THEN [cursor_x |-> cx, cursor_y |-> cy]
    ELSE LET m == move_cursor(direction, rs, cx, cy)
         IN RepeatMove(direction, times - 1, rs, m.cursor_x, m.cursor_y)

\* Mutant of page_move: the jump of cursor_y to the edge of the viewport is
\* missing.
page_move_unjumped(val, rs, cx, cy, ro) ==
    IF val = "PageUp"
    THEN RepeatMove("Up", ScreenRows, rs, cx, cy)
    ELSE RepeatMove("Down", ScreenRows, rs, cx, cy)

\* The PageUp / PageDown arm of process_keypress: the jump of cursor_y, then
\* screen_rows moves.
page_move(val, rs, cx, cy, ro) ==
    IF val = "PageUp"
    THEN RepeatMove("Up", ScreenRows, rs, cx, ro)
    ELSE RepeatMove("Down", ScreenRows, rs, cx, Min(ScreenRows + ro - 1, Len(rs)))

\* Mutant of scroll: the two tests against the far edge use > for >=.
scroll_late(rs, cx, cy, ro, co) ==
    LET onRow == cy < Len(rs)
        bad == onRow /\ ~(cx <= RowLen(rs, cy)
                          /\ IsCharBoundary(rs[cy + 1].row_content, cx))
        rx == IF onRow /\ ~bad THEN get_render_x(rs[cy + 1].row_content, cx) ELSE 0
        ro1 == Min(ro, cy)
        ro2 == IF cy > ro1 + ScreenRows THEN cy - ScreenRows + 1 ELSE ro1
        co1 == Min(co, rx)
        co2 == IF rx > co1 + ScreenCols THEN rx - ScreenCols + 1 ELSE co1
    IN [panic |-> bad, render_x |-> rx, row_offset |-> ro2, column_offset |-> co2]

\* CursorController::scroll.  panic: the slice row_content[..cursor_x] of
\* get_render_x is not on a character boundary.
scroll(rs, cx, cy, ro, co) ==
    LET onRow == cy < Len(rs)
        bad == onRow /\ ~(cx <= RowLen(rs, cy)
                          /\ IsCharBoundary(rs[cy + 1].row_content, cx))
        rx == IF onRow /\ ~bad THEN get_render_x(rs[cy + 1].row_content, cx) ELSE 0
        ro1 == Min(ro, cy)
        ro2 == IF cy >= ro1 + ScreenRows THEN cy - ScreenRows + 1 ELSE ro1
        co1 == Min(co, rx)
        co2 == IF rx >= co1 + ScreenCols THEN rx - ScreenCols + 1 ELSE co1
    IN [panic |-> bad, render_x |-> rx, row_offset |-> ro2, column_offset |-> co2]

\* Output::draw_rows: whether a slice &row[start..start + len] of a visible
\* row's render is cut inside a character, which panics.
draw_rows_panics(rs, ro, co) ==
    \E i \in 0..(ScreenRows - 1) :
        LET file_row == i + ro IN
        /\ file_row < Len(rs)
        /\ LET row == rs[file_row + 1].render
               avail == IF Len(row) > co THEN Len(row) - co ELSE 0
               len == Min(avail, ScreenCols)
               start == IF len = 0 THEN 0 ELSE co
           IN ~(IsCharBoundary(row, start) /\ IsCharBoundary(row, start + len))

\* ------------------------------------------------------ editing primitives
\* Each returns the buffer, the cursor and dirty after the call, or panic.
Edit(rs, cx, cy, d) ==
    [panic |-> FALSE, rows |-> rs, cursor_x |-> cx, cursor_y |-> cy, dirty |-> d]
EditPanic(rs, cx, cy, d) ==
    [panic |-> TRUE, rows |-> rs, cursor_x |-> cx, cursor_y |-> cy, dirty |-> d]

\* Row::insert_char / Row::delete_char: the edit of row_content, then render_row.
row_insert_char(row, at, ch) == NewRow(StrInsert(row.row_content, at, ch))
\* Mutant of row_delete_char: render is not rebuilt.
row_delete_char_stale(row, at) ==
    [row EXCEPT !.row_content = StrRemove(row.row_content, at)]
row_delete_char(row, at) == NewRow(StrRemove(row.row_content, at))

\* EditorRows::insert_row, at a 0-based position.
insert_row(rs, at, contents) ==
    SubSeq(rs, 1, at) \o <<NewRow(contents)>> \o SubSeq(rs, at + 1, Len(rs))

\* Mutant of join_adjacent_rows: the removed row is put in front of row at-1.
join_adjacent_rows_swapped(rs, at) ==
    LET joined == NewRow(rs[at + 1].row_content \o rs[at].row_content)
    IN SubSeq(rs, 1, at - 1) \o <<joined>> \o SubSeq(rs, at + 2, Len(rs))

\* EditorRows::join_adjacent_rows(at): row at is removed and appended to at-1.
join_adjacent_rows(rs, at) ==
    LET joined == NewRow(rs[at].row_content \o rs[at + 1].row_content)
    IN SubSeq(rs, 1, at - 1) \o <<joined>> \o SubSeq(rs, at + 2, Len(rs))

\* Mutant of insert_char: the row appended on the row past the last is not
\* counted in dirty.
insert_char_uncounted(ch, rs, cx, cy, d) ==
    LET past == cy = Len(rs)
        rs1 == IF past THEN insert_row(rs, Len(rs), <<>>) ELSE rs
        content == rs1[cy + 1].row_content
    IN IF ~(cx <= Len(content) /\ IsCharBoundary(content, cx))
       THEN EditPanic(rs1, cx, cy, d)
       ELSE Edit([rs1 EXCEPT ![cy + 1] = row_insert_char(rs1[cy + 1], cx, ch)],
                 cx + 1, cy, d + 1)

\* Output::insert_char.
insert_char(ch, rs, cx, cy, d) ==
    LET past == cy = Len(rs)
        rs1 == IF past THEN insert_row(rs, Len(rs), <<>>) ELSE rs
        d1 == IF past THEN d + 1 ELSE d
        content == rs1[cy + 1].row_content
    IN IF ~(cx <= Len(content) /\ IsCharBoundary(content, cx))
       THEN EditPanic(rs1, cx, cy, d1)
       ELSE Edit([rs1 EXCEPT ![cy + 1] = row_insert_char(rs1[cy + 1], cx, ch)],
                 cx + 1, cy, d1 + 1)

\* Mutant of delete_char: the removal of a character is not counted in dirty.
delete_char_uncounted(rs, cx, cy, d) ==
    IF cy = Len(rs) THEN Edit(rs, cx, cy, d)
    ELSE IF cy = 0 /\ cx = 0 THEN Edit(rs, cx, cy, d)
    ELSE IF cx > 0
         THEN LET content == rs[cy + 1].row_content IN
              IF ~(cx - 1 < Len(content) /\ IsCharBoundary(content, cx - 1))
              THEN EditPanic(rs, cx, cy, d)
              ELSE Edit([rs EXCEPT ![cy + 1] = row_delete_char(rs[cy + 1], cx - 1)],
                        cx - 1, cy, d)
         ELSE Edit(join_adjacent_rows(rs, cy), RowLen(rs, cy - 1), cy - 1, d + 1)

\* Output::delete_char.
delete_char(rs, cx, cy, d) ==
    IF cy = Len(rs) THEN Edit(rs, cx, cy, d)
    ELSE IF cy = 0 /\ cx = 0 THEN Edit(rs, cx, cy, d)
    ELSE IF cx > 0
         THEN LET content == rs[cy + 1].row_content IN
              IF ~(cx - 1 < Len(content) /\ IsCharBoundary(content, cx - 1))
              THEN EditPanic(rs, cx, cy, d)
              ELSE Edit([rs EXCEPT ![cy + 1] = row_delete_char(rs[cy + 1], cx - 1)],
                        cx - 1, cy, d + 1)
         ELSE Edit(join_adjacent_rows(rs, cy), RowLen(rs, cy - 1), cy - 1, d + 1)

\* Mutant of insert_newline: the line feed is put into the row as a character.
insert_newline_inline(rs, cx, cy, d) == insert_char(<<LF>>, rs, cx, cy, d)

\* Mutant of insert_newline: dirty is not incremented.
insert_newline_uncounted(rs, cx, cy, d) ==
    IF cx = 0
    THEN Edit(insert_row(rs, cy, <<>>), 0, cy + 1, d)
    ELSE LET content == rs[cy + 1].row_content IN
         IF ~(cx <= Len(content) /\ IsCharBoundary(content, cx))
         THEN EditPanic(rs, cx, cy, d)
         ELSE LET current == NewRow(Prefix(content, cx))
                  rs1 == [rs EXCEPT ![cy + 1] = current]
              IN Edit(insert_row(rs1, cy + 1, Suffix(content, cx)), 0, cy + 1, d)

\* Output::insert_newline.
insert_newline(rs, cx, cy, d) ==
    IF cx = 0
    THEN Edit(insert_row(rs, cy, <<>>), 0, cy + 1, d + 1)
    ELSE LET content == rs[cy + 1].row_content IN
         IF ~(cx <= Len(content) /\ IsCharBoundary(content, cx))
         THEN EditPanic(rs, cx, cy, d)
         ELSE LET current == NewRow(Prefix(content, cx))
                  rs1 == [rs EXCEPT ![cy + 1] = current]
              IN Edit(insert_row(rs1, cy + 1, Suffix(content, cx)), 0, cy + 1, d + 1)

\* Mutant of delete_key: Delete does not move Right first.
delete_key_unmoved(key, rs, cx, cy, d) == delete_char(rs, cx, cy, d)

\* The Backspace / Delete arm: Delete first moves Right.
delete_key(key, rs, cx, cy, d) ==
    IF key = "Delete"
    THEN LET m == move_cursor("Right", rs, cx, cy)
         IN delete_char(rs, m.cursor_x, m.cursor_y, d)
    ELSE delete_char(rs, cx, cy, d)

\* ------------------------------------------------------------------ status
\* StatusMessage.message, by the format string that produced it; "none" is
\* the expired message (None).
Msg(kind, n, text) == [kind |-> kind, n |-> n, text |-> text]
MsgHelp == Msg("help", 0, <<>>)
MsgWarning(q) == Msg("warning", q, <<>>)
MsgWritten(len) == Msg("written", len, <<>>)
MsgAborted == Msg("aborted", 0, <<>>)
MsgPrompt(scratch) == Msg("prompt", 0, scratch)
MsgNone == Msg("none", 0, <<>>)

\* ------------------------------------------------------------------- state
VARIABLES
    pc,             \* where the process is: start, new, frame, key, pframe,
                    \* pkey, drop (leaving main, CleanUp not yet dropped), done
                    \* (terminated, CleanUp dropped), dead (terminated by a
                    \* panic inside the drop of CleanUp)
    exit,           \* how main was left: none, ok, err (an Err returned), panic
    raw_mode,       \* whether the terminal is in raw mode
    rows,           \* EditorRows.row_contents
    filename,       \* EditorRows.filename: <<>> is None, <<path>> is Some(path)
    cursor_x, cursor_y, row_offset, column_offset, render_x,  \* CursorController
    dirty,          \* Output.dirty
    quit_times,     \* Editor.quit_times
    message,        \* Output.status_message
    input,          \* the scratch string of the prompt! loop
    written,        \* what the save of the last dispatch wrote to the file:
                    \* <<>> nothing, <<bytes>> the file's new contents
    file,           \* the round trip's input: the bytes of the file to load
    qrun,           \* history: the Ctrl-Q presses in a row, with unsaved changes,
                    \* since quit_times was QUIT_TIMES (0: no such run)
    undo            \* history, kept by SpecEdit: the buffer before the last
                    \* Char / Enter key, kept until the dispatch after it
                    \* (through a Backspace that follows it); the buffer
                    \* before the last Delete and the name of the last PageUp
                    \* / PageDown, kept until the next frame; and, kept by
                    \* SpecTab: rights counts the Right keys pressed in a row
                    \* on row 0, from column 0

vars == <<pc, exit, raw_mode, rows, filename, cursor_x, cursor_y, row_offset,
          column_offset, render_x, dirty, quit_times, message, input, written,
          file, qrun, undo>>

NoUndo == [stage |-> "none", key |-> "none", rows |-> <<>>,
           cursor_x |-> 0, cursor_y |-> 0, dirty |-> 0, rights |-> 0]
Armed(key) == [stage |-> "armed", key |-> key, rows |-> rows,
               cursor_x |-> cursor_x, cursor_y |-> cursor_y, dirty |-> dirty,
               rights |-> 0]
\* The history after a key that is only named.
After(key) == [NoUndo EXCEPT !.key = key]
\* The history after one more key: a Right pressed on row 0 is counted when
\* it starts at column 0 or follows a counted one.
Moved(direction) ==
    [NoUndo EXCEPT !.rights =
        IF direction = "Right" /\ cursor_y = 0
        THEN IF cursor_x = 0 THEN 1
             ELSE IF undo.rights > 0 THEN undo.rights + 1 ELSE 0
        ELSE 0]

\* The files a session may open: every string of at most MaxBytes bytes.
FileChars == {CharA, CharTab, CharE, <<LF>>}
Files == BoundedStrings(FileChars, MaxBytes)
\* The path given on the command line.
ArgPath == CharA

\* No editor: before Editor::new, and after the editor is dropped.
NoEditor ==
    /\ rows' = <<>>
    /\ filename' = <<>>
    /\ cursor_x' = 0 /\ cursor_y' = 0
    /\ row_offset' = 0 /\ column_offset' = 0 /\ render_x' = 0
    /\ dirty' = 0
    /\ quit_times' = QUIT_TIMES
    /\ message' = MsgNone
    /\ input' = <<>>
    /\ written' = <<>>

Init ==
    /\ pc = "start"
    /\ exit = "none"
    /\ raw_mode = FALSE
    /\ rows = <<>>
    /\ filename = <<>>
    /\ cursor_x = 0 /\ cursor_y = 0
    /\ row_offset = 0 /\ column_offset = 0 /\ render_x = 0
    /\ dirty = 0
    /\ quit_times = QUIT_TIMES
    /\ message = MsgNone
    /\ input = <<>>
    /\ written = <<>>
    /\ file = <<>>
    /\ qrun = 0
    /\ undo = NoUndo

\* Mutant of Leave: the process ends at once (as std::process::exit would
\* end it), the CleanUp guard is not dropped.
Leave_exits(how, q) ==
    /\ pc' = "done"
    /\ exit' = how
    /\ NoEditor
    /\ qrun' = q
    /\ undo' = NoUndo
    /\ UNCHANGED <<raw_mode, file>>

\* main is left (a return, an Err through `?`, or a panic unwinding): the
\* editor is dropped, the CleanUp guard is dropped next.
Leave(how, q) ==
    /\ pc' = "drop"
    /\ exit' = how
    /\ NoEditor
    /\ qrun' = q
    /\ undo' = NoUndo
    /\ UNCHANGED <<raw_mode, file>>

\* ----------------------------------------------------------------- startup
\* main: terminal::enable_raw_mode()?
EnableRawMode ==
    /\ pc = "start"
    /\ \/ /\ raw_mode' = TRUE
          /\ pc' = "new"
          /\ UNCHANGED <<file, exit, rows, filename, cursor_x, cursor_y, row_offset,
                         column_offset, render_x, dirty, quit_times, message,
                         input, written, qrun, undo>>
       \/ Leave("err", 0)

\* Editor::new -> Output::new -> EditorRows::new: no argument, or a file that
\* is read (from_file), or one that cannot be read (expect panics).
NewEditor ==
    /\ pc = "new"
    /\ \/ /\ \/ rows' = <<>> /\ filename' = <<>>
             \/ \E f \in Files, bare_cr \in BOOLEAN :
                  rows' = from_file(f, bare_cr) /\ filename' = <<ArgPath>>
          /\ message' = MsgHelp
          /\ pc' = "frame"
          /\ UNCHANGED <<file, exit, raw_mode, cursor_x, cursor_y, row_offset,
                         column_offset, render_x, dirty, quit_times, input,
                         written, qrun, undo>>
       \/ Leave("panic", 0)

\* ------------------------------------------------------------------- frame
\* StatusMessage::message, called by draw_message_bar: a message older than
\* five seconds becomes None; the clock is not the program's.
Expire(m) == {m, MsgNone}

\* Output::refresh_screen with the message m in the bar: scroll, the three
\* draw_* calls, the flush.  The text sent to the terminal is not state.
RefreshScreen(m, next) ==
    LET s == scroll(rows, cursor_x, cursor_y, row_offset, column_offset) IN
    \/ /\ s.panic \/ draw_rows_panics(rows, s.row_offset, s.column_offset)
       /\ Leave("panic", 0)
    \/ /\ ~s.panic /\ ~draw_rows_panics(rows, s.row_offset, s.column_offset)
       /\ \/ /\ render_x' = s.render_x
             /\ row_offset' = s.row_offset
             /\ column_offset' = s.column_offset
             /\ message' \in Expire(m)
             /\ pc' = next
             /\ written' = <<>>
             /\ undo' = IF undo.stage = "done"
                             \/ undo.key \in {"delete", "PageUp", "PageDown"}
                          THEN NoUndo ELSE undo
             /\ UNCHANGED <<file, exit, raw_mode, rows, filename, cursor_x, cursor_y,
                            dirty, quit_times, input, qrun>>
          \/ Leave("err", 0)

\* Editor::run: the frame before the key.
Frame ==
    /\ pc = "frame"
    /\ RefreshScreen(message, "key")

\* Reader::read_key returns an Err (event::poll or event::read failed).
ReadKeyFails ==
    /\ pc \in {"key", "pkey"}
    /\ Leave("err", 0)

\* ------------------------------------------------------- process_keypress
\* The end of process_keypress after an arm that fell through the match.
Dispatched ==
    /\ quit_times' = QUIT_TIMES
    /\ pc' = "frame"
    /\ qrun' = 0

\* Whether the model follows an edit: within the bounds, or a panic.
Fits(r) ==
    \/ r.panic
    \/ r.dirty <= MaxDirty /\ Len(Serialize(r.rows)) <= MaxBytes

\* The state after an editing arm returned r.
Edited(r, u) ==
    \/ /\ r.panic
       /\ Leave("panic", 0)
    \/ /\ ~r.panic
       /\ rows' = r.rows
       /\ cursor_x' = r.cursor_x
       /\ cursor_y' = r.cursor_y
       /\ dirty' = r.dirty
       /\ undo' = u
       /\ Dispatched
       /\ UNCHANGED <<file, exit, raw_mode, filename, row_offset, column_offset,
                      render_x, message, input, written>>

\* Mutant of QuitGuard: the last warning is skipped.
QuitGuard_early == dirty > 0 /\ quit_times > 1

\* Ctrl-Q: the test that keeps the editor running.
QuitGuard == dirty > 0 /\ quit_times > 0

KeyCtrlQ ==
    /\ pc = "key"
    /\ LET q == IF dirty = 0 THEN 0
                ELSE IF quit_times = QUIT_TIMES THEN 1
                ELSE IF qrun > 0 THEN qrun + 1
                ELSE 0
       IN IF QuitGuard
          THEN /\ message' = MsgWarning(quit_times)
               /\ quit_times' = quit_times - 1
               /\ pc' = "frame"
               /\ qrun' = q
               /\ undo' = NoUndo
               /\ UNCHANGED <<file, exit, raw_mode, rows, filename, cursor_x, cursor_y,
                              row_offset, column_offset, render_x, dirty, input,
                              written>>
          ELSE Leave("ok", q)

\* One of Up, Down, Left, Right, Home, End, leaving the history u.
KeyMoveTo(direction, u) ==
    /\ pc = "key"
    /\ Edited([panic |-> FALSE, rows |-> rows, dirty |-> dirty]
                @@ move_cursor(direction, rows, cursor_x, cursor_y), u)

\* Up, Down, Left, Right, Home, End.
KeyMove == \E direction \in Directions : KeyMoveTo(direction, NoUndo)

\* PageUp or PageDown, leaving the history u.
KeyPageTo(val, u) ==
    /\ pc = "key"
    /\ Edited([panic |-> FALSE, rows |-> rows, dirty |-> dirty]
                @@ page_move(val, rows, cursor_x, cursor_y, row_offset), u)

\* PageUp, PageDown.
KeyPage == \E val \in {"PageUp", "PageDown"} : KeyPageTo(val, NoUndo)

\* Backspace.
KeyBackspace ==
    /\ pc = "key"
    /\ LET r == delete_key("Backspace", rows, cursor_x, cursor_y, dirty) IN
       /\ Fits(r)
       /\ Edited(r, IF undo.stage = "armed" /\ undo.key \in {"char", "enter"}
                    THEN [undo EXCEPT !.stage = "done"] ELSE NoUndo)

\* Delete, leaving the history u.
KeyDeleteTo(u) ==
    /\ pc = "key"
    /\ LET r == delete_key("Delete", rows, cursor_x, cursor_y, dirty) IN
       /\ Fits(r)
       /\ Edited(r, u)

\* Delete.
KeyDelete == KeyDeleteTo(NoUndo)

\* Enter, leaving the history u.
KeyEnterTo(u) ==
    /\ pc = "key"
    /\ LET r == insert_newline(rows, cursor_x, cursor_y, dirty) IN
       /\ Fits(r)
       /\ Edited(r, u)

\* Enter.
KeyEnter == KeyEnterTo(NoUndo)

\* Char(ch) or Tab, with no modifier or Shift, leaving the history u.
KeyCharTo(u) ==
    /\ pc = "key"
    /\ \E ch \in TypedChars :
         LET r == insert_char(ch, rows, cursor_x, cursor_y, dirty) IN
         /\ Fits(r)
         /\ Edited(r, u)

\* Char(ch) or Tab.
KeyChar == KeyCharTo(NoUndo)

\* Any other key event: the `_ => {}` arm.
KeyOther ==
    /\ pc = "key"
    /\ Edited(Edit(rows, cursor_x, cursor_y, dirty), NoUndo)

\* Mutant of SaveArm: dirty is not cleared.
SaveArm_dirty(name) ==
    \/ /\ filename' = <<name>>
       /\ written' = <<Serialize(rows)>>
       /\ message' = MsgWritten(Len(Serialize(rows)))
       /\ input' = <<>>
       /\ undo' = NoUndo
       /\ Dispatched
       /\ UNCHANGED <<file, exit, raw_mode, rows, cursor_x, cursor_y, row_offset,
                      column_offset, render_x, dirty>>
    \/ Leave("err", 0)

\* EditorRows::save and the closure of the Ctrl-S arm on a buffer named name:
\* the file gets the serialized rows; or an io::Error leaves main through `?`.
SaveArm(name) ==
    \/ /\ filename' = <<name>>
       /\ written' = <<Serialize(rows)>>
       /\ message' = MsgWritten(Len(Serialize(rows)))
       /\ dirty' = 0
       /\ input' = <<>>
       /\ undo' = NoUndo
       /\ Dispatched
       /\ UNCHANGED <<file, exit, raw_mode, rows, cursor_x, cursor_y, row_offset,
                      column_offset, render_x>>
    \/ Leave("err", 0)

\* Ctrl-S: on an unnamed buffer the prompt! loop starts, else the save.
KeyCtrlS ==
    /\ pc = "key"
    /\ IF filename = <<>>
       THEN /\ pc' = "pframe"
            /\ input' = <<>>
            /\ qrun' = 0
            /\ undo' = NoUndo
            /\ UNCHANGED <<file, exit, raw_mode, rows, filename, cursor_x, cursor_y,
                           row_offset, column_offset, render_x, dirty,
                           quit_times, message, written>>
       ELSE SaveArm(filename[1])

\* ------------------------------------------------------------------ prompt!
\* The head of the prompt! loop: set_message(format!(...)), refresh_screen.
PromptFrame ==
    /\ pc = "pframe"
    /\ RefreshScreen(MsgPrompt(input), "pkey")

\* Mutant of PromptLoop: the loop goes back to read_key, not to its head.
PromptLoop_noframe(scratch) ==
    /\ input' = scratch
    /\ pc' = "pkey"
    /\ UNCHANGED <<file, exit, raw_mode, rows, filename, cursor_x, cursor_y,
                   row_offset, column_offset, render_x, dirty, quit_times,
                   message, written, qrun, undo>>

\* The prompt loop goes round with the scratch string scratch.
PromptLoop(scratch) ==
    /\ input' = scratch
    /\ pc' = "pframe"
    /\ UNCHANGED <<file, exit, raw_mode, rows, filename, cursor_x, cursor_y,
                   row_offset, column_offset, render_x, dirty, quit_times,
                   message, written, qrun, undo>>

\* Mutant of PromptEnter: the test for an empty scratch is missing.
PromptEnter_any ==
    /\ pc = "pkey"
    /\ SaveArm(input)

\* Enter: with a non-empty scratch the loop breaks and the Ctrl-S arm goes on
\* to set the filename and save.
PromptEnter ==
    /\ pc = "pkey"
    /\ IF input # <<>> THEN SaveArm(input) ELSE PromptLoop(input)

\* Mutant of PromptEsc: input.clear() is missing, so that Esc after typed
\* characters returns Some(input) and the buffer is saved.
PromptEsc_keeps ==
    /\ pc = "pkey"
    /\ IF input # <<>>
       THEN SaveArm(input)
       ELSE /\ message' = MsgAborted
            /\ input' = <<>>
            /\ pc' = "frame"
            /\ UNCHANGED <<file, exit, raw_mode, rows, filename, cursor_x,
                           cursor_y, row_offset, column_offset, render_x, dirty,
                           quit_times, written, qrun, undo>>

\* Esc: the scratch is cleared, the prompt returns None, and the Ctrl-S arm
\* returns Ok(true) at once.
PromptEsc ==
    /\ pc = "pkey"
    /\ message' = MsgAborted
    /\ input' = <<>>
    /\ pc' = "frame"
    /\ UNCHANGED <<file, exit, raw_mode, rows, filename, cursor_x, cursor_y,
                   row_offset, column_offset, render_x, dirty, quit_times,
                   written, qrun, undo>>

\* Backspace / Delete: input.pop().
PromptErase ==
    /\ pc = "pkey"
    /\ PromptLoop(StrPop(input))

\* Char(ch) or Tab: input.push(ch).
PromptChar ==
    /\ pc = "pkey"
    /\ \E ch \in PromptChars :
         /\ Len(input \o ch) <= MaxInput
         /\ PromptLoop(input \o ch)

\* Any other key event.
PromptOther ==
    /\ pc = "pkey"
    /\ PromptLoop(input)

\* ---------------------------------------------------------------- teardown
\* Drop for CleanUp: disable_raw_mode, then clear_screen, each with
\* .expect(): both succeed; or clear_screen fails and the drop panics with
\* raw mode already off; or disable_raw_mode fails (it cannot when raw mode
\* was never enabled: it then does nothing) and the drop panics at once.
Teardown ==
    /\ pc = "drop"
    /\ \/ raw_mode' = FALSE /\ pc' = "done"
       \/ raw_mode' = FALSE /\ pc' = "dead"
       \/ raw_mode /\ raw_mode' = TRUE /\ pc' = "dead"
    /\ UNCHANGED <<file, exit, rows, filename, cursor_x, cursor_y, row_offset,
                   column_offset, render_x, dirty, quit_times, message, input,
                   written, qrun, undo>>

Next ==
    \/ EnableRawMode
    \/ NewEditor
    \/ Frame
    \/ ReadKeyFails
    \/ KeyCtrlQ
    \/ KeyMove
    \/ KeyPage
    \/ KeyCtrlS
    \/ KeyBackspace
    \/ KeyDelete
    \/ KeyEnter
    \/ KeyChar
    \/ KeyOther
    \/ PromptFrame
    \/ PromptEnter
    \/ PromptEsc
    \/ PromptErase
    \/ PromptChar
    \/ PromptOther
    \/ Teardown

Spec == Init /\ [][Next]_vars

\* ----------------------------------------------------------- editing sessions
\* The sessions in which Ctrl-Q is not pressed (no key but Ctrl-Q reads
\* quit_times or the warning), with the history of the last editing key.
EditKeyPage == \E val \in {"PageUp", "PageDown"} : KeyPageTo(val, After(val))
EditKeyDelete == KeyDeleteTo(Armed("delete"))
EditKeyEnter == KeyEnterTo(Armed("enter"))
EditKeyChar == KeyCharTo(Armed("char"))

NextEdit ==
    \/ EnableRawMode
    \/ NewEditor
    \/ Frame
    \/ ReadKeyFails
    \/ KeyMove
    \/ EditKeyPage
    \/ KeyCtrlS
    \/ KeyBackspace
    \/ EditKeyDelete
    \/ EditKeyEnter
    \/ EditKeyChar
    \/ KeyOther
    \/ PromptFrame
    \/ PromptEnter
    \/ PromptEsc
    \/ PromptErase
    \/ PromptChar
    \/ PromptOther
    \/ Teardown

SpecEdit == Init /\ [][NextEdit]_vars

\* --------------------------------------------------------------- round trip
\* from_file followed by save with nothing in between, on every file of at
\* most MaxBytes bytes over 'a', tab, line feed and carriage return.
RoundTripChars == {CharA, CharTab, <<LF>>, <<CR>>}
RoundTripFiles == BoundedStrings(RoundTripChars, MaxBytes)

InitRoundTrip ==
    /\ pc = "rt_file"
    /\ exit = "none"
    /\ raw_mode = TRUE
    /\ rows = <<>>
    /\ filename = <<>>
    /\ cursor_x = 0 /\ cursor_y = 0
    /\ row_offset = 0 /\ column_offset = 0 /\ render_x = 0
    /\ dirty = 0
    /\ quit_times = QUIT_TIMES
    /\ message = MsgNone
    /\ input = <<>>
    /\ written = <<>>
    /\ file \in RoundTripFiles
    /\ qrun = 0
    /\ undo = NoUndo

\* EditorRows::from_file on the file.
RoundTripLoad ==
    /\ pc = "rt_file"
    /\ \E bare_cr \in BOOLEAN : rows' = from_file(file, bare_cr)
    /\ filename' = <<ArgPath>>
    /\ message' = MsgHelp
    /\ pc' = "rt_loaded"
    /\ UNCHANGED <<file, exit, raw_mode, cursor_x, cursor_y, row_offset,
                   column_offset, render_x, dirty, quit_times, input, written,
                   qrun, undo>>

\* EditorRows::save of the rows just loaded.
RoundTripSave ==
    /\ pc = "rt_loaded"
    /\ written' = <<Serialize(rows)>>
    /\ message' = MsgWritten(Len(Serialize(rows)))
    /\ pc' = "rt_saved"
    /\ UNCHANGED <<file, exit, raw_mode, rows, filename, cursor_x, cursor_y,
                   row_offset, column_offset, render_x, dirty, quit_times,
                   input, qrun, undo>>

NextRoundTrip == RoundTripLoad \/ RoundTripSave

SpecRoundTrip == InitRoundTrip /\ [][NextRoundTrip]_vars

\* ------------------------------------------------------------ tab scenario
\* A session on the file whose single line is 'a', tab, 'b'; the Right keys
\* pressed in a row from column 0 are counted.
TabFile == <<97, TAB, 98>>

InitTab ==
    /\ pc = "tab_file"
    /\ exit = "none"
    /\ raw_mode = TRUE
    /\ rows = <<>>
    /\ filename = <<>>
    /\ cursor_x = 0 /\ cursor_y = 0
    /\ row_offset = 0 /\ column_offset = 0 /\ render_x = 0
    /\ dirty = 0
    /\ quit_times = QUIT_TIMES
    /\ message = MsgNone
    /\ input = <<>>
    /\ written = <<>>
    /\ file = TabFile
    /\ qrun = 0
    /\ undo = NoUndo

\* Editor::new on the file.
TabLoad ==
    /\ pc = "tab_file"
    /\ \E bare_cr \in BOOLEAN : rows' = from_file(file, bare_cr)
    /\ filename' = <<ArgPath>>
    /\ message' = MsgHelp
    /\ pc' = "frame"
    /\ UNCHANGED <<file, exit, raw_mode, cursor_x, cursor_y, row_offset,
                   column_offset, render_x, dirty, quit_times, input, written,
                   qrun, undo>>

\* Up, Down, Left, Right, Home, End, the Right keys counted.
TabKeyMove == \E direction \in Directions : KeyMoveTo(direction, Moved(direction))

NextTab ==
    \/ TabLoad
    \/ Frame
    \/ TabKeyMove
    \/ KeyPage
    \/ KeyBackspace
    \/ KeyDelete
    \/ KeyEnter
    \/ KeyChar
    \/ KeyOther

SpecTab == InitTab /\ [][NextTab]_vars

\* ============================================================== properties
\* The statements below are written from the specification's words, with
\* their own definitions of tab expansion and of the serialized buffer.

\* Tab expansion: each tab becomes the spaces that reach the next multiple of
\* TAB_STOP, every other character is copied.
RECURSIVE TabExpandFrom(_, _, _)
TabExpandFrom(content, i, out) ==
    IF i > Len(content) THEN out
    ELSE IF content[i] = TAB
         THEN TabExpandFrom(content, i + 1,
                            out \o Spaces(TAB_STOP - (CharCount(out) % TAB_STOP)))
         ELSE TabExpandFrom(content, i + 1, Append(out, content[i]))
TabExpand(content) == TabExpandFrom(content, 1, <<>>)

\* The row contents, without the renders.
Contents(rs) == [k \in 1..Len(rs) |-> rs[k].row_content]

\* The row contents joined by single line feeds, no line feed at the end.
RECURSIVE JoinedByLF(_)
JoinedByLF(cs) ==
    IF cs = <<>> THEN <<>>
    ELSE IF Len(cs) = 1 THEN cs[1]
    ELSE JoinedByLF(SubSeq(cs, 1, Len(cs) - 1)) \o <<LF>> \o cs[Len(cs)]

\* C1 -- Cursor bounds: in every reachable state cursor_y is in
\* [0, number_of_rows()], and cursor_x is in [0, len(rows[cursor_y])] on an
\* existing row and 0 on the row past the last.
C1_CursorBounds ==
    /\ cursor_y \in 0..Len(rows)
    /\ IF cursor_y < Len(rows)
       THEN cursor_x \in 0..Len(rows[cursor_y + 1].row_content)
       ELSE cursor_x = 0

\* C1 witness: after edits, the cursor stands past the last of several rows
\* whose last row is not empty (a move down from it had to clamp or reset).
C1_Witness ==
    /\ pc = "frame"
    /\ dirty > 0
    /\ Len(rows) >= 2
    /\ cursor_y = Len(rows)
    /\ Len(rows[Len(rows)].row_content) > 0

\* C2 -- Quit guard: Ctrl-Q with dirty > 0 and quit_times > 0 sets the warning
\* showing quit_times, decrements it and keeps running, and otherwise leaves
\* the loop; so from quit_times = QUIT_TIMES with unsaved changes the first
\* three presses in a row keep the editor running and the fourth exits.
C2_QuitGuard ==
    /\ [][KeyCtrlQ =>
            IF dirty > 0 /\ quit_times > 0
            THEN /\ message' = MsgWarning(quit_times)
                 /\ quit_times' = quit_times - 1
                 /\ pc' = "frame"
                 /\ exit' = "none"
            ELSE /\ pc' = "drop"
                 /\ exit' = "ok"]_vars
    /\ [](qrun \in 1..QUIT_TIMES => pc \in {"frame", "key"} /\ exit = "none")
    /\ [](qrun > QUIT_TIMES =>
            qrun = QUIT_TIMES + 1 /\ exit = "ok" /\ pc \in {"drop", "done", "dead"})

\* C2 witness: the fourth Ctrl-Q in a row has ended the loop.
C2_Witness == qrun = QUIT_TIMES + 1 /\ pc = "drop" /\ exit = "ok"

\* C3 -- Quit counter reset: when the dispatch of a key other than Ctrl-Q is
\* over (the main loop goes to its next frame), quit_times is QUIT_TIMES.
C3_QuitReset ==
    [][(pc \in {"key", "pkey"} /\ pc' = "frame" /\ ~KeyCtrlQ)
         => quit_times' = QUIT_TIMES]_vars

\* A file with at most one line feed taken off its end.
DropLastLF(f) ==
    IF Len(f) > 0 /\ f[Len(f)] = LF THEN SubSeq(f, 1, Len(f) - 1) ELSE f

\* No carriage return ends a line: none stands before a line feed or at the
\* end of the file.
NoCRAtLineEnd(f) ==
    \A i \in 1..Len(f) : f[i] = CR => (i < Len(f) /\ f[i + 1] # LF)

\* C4 as stated -- Save round trip: for every file, loading it and saving at
\* once writes the file's bytes with at most one trailing line feed removed.
C4_RoundTripAnyFile ==
    pc = "rt_saved" => written[1] \in {file, DropLastLF(file)}

\* C4 amended -- the same for every file in which no carriage return ends a
\* line: the bytes written are the file's, without its final line feed.
C4_RoundTrip ==
    (pc = "rt_saved" /\ NoCRAtLineEnd(file)) => written[1] = DropLastLF(file)

\* C4 witness: a saved file that had a carriage return inside a line, a tab
\* and a final line feed.
C4_Witness ==
    /\ pc = "rt_saved"
    /\ NoCRAtLineEnd(file)
    /\ Len(file) = MaxBytes
    /\ file[Len(file)] = LF
    /\ file[1] = CR
    /\ written = <<DropLastLF(file)>>

\* C5 -- Successful save: a step that saves writes exactly the row contents
\* joined by single line feeds, reports that many bytes in the message, sets
\* dirty to 0 and leaves the rows and the cursor as they were.
C5_SuccessfulSave ==
    [][(pc \in {"key", "pkey"} /\ written' # <<>>) =>
         /\ written' = <<JoinedByLF(Contents(rows))>>
         /\ message' = MsgWritten(Len(JoinedByLF(Contents(rows))))
         /\ dirty' = 0
         /\ rows' = rows
         /\ cursor_x' = cursor_x
         /\ cursor_y' = cursor_y]_vars

\* C5 witness: a buffer of several rows with a tab has just been saved and
\* the message reports its full size.
C5_Witness ==
    /\ pc = "frame"
    /\ written # <<>>
    /\ Len(rows) >= 2
    /\ dirty = 0
    /\ message = MsgWritten(MaxBytes)
    /\ \E k \in 1..Len(rows) : rows[k].row_content = CharTab

\* C6 -- Save-As aborted: on an unnamed buffer with unsaved changes, no step
\* of the prompt that stays in the prompt touches dirty, the rows or the
\* filename or saves, and Esc leaves dirty as it was and > 0, the filename
\* unset, the rows unchanged, nothing saved, the message "Save Aborted" and
\* the editor running.
C6_SaveAborted ==
    /\ [][(pc \in {"pframe", "pkey"} /\ pc' \in {"pframe", "pkey"} /\ dirty > 0) =>
            /\ dirty' = dirty
            /\ rows' = rows
            /\ filename' = <<>>
            /\ written' = <<>>]_vars
    /\ [][(PromptEsc /\ dirty > 0) =>
            /\ dirty' = dirty
            /\ dirty' > 0
            /\ rows' = rows
            /\ filename = <<>>
            /\ filename' = <<>>
            /\ written' = <<>>
            /\ message' = MsgAborted
            /\ pc' = "frame"
            /\ exit' = "none"]_vars

\* C6 witness: the prompt of an unnamed, modified buffer has just been left
\* with Esc.
C6_Witness ==
    /\ pc = "frame"
    /\ message = MsgAborted
    /\ dirty > 0
    /\ filename = <<>>
    /\ written = <<>>
    /\ rows # <<>>

\* C7 -- Render consistency: in every reachable state every row's render is
\* the tab expansion of its content.
C7_RenderConsistency ==
    \A k \in 1..Len(rows) : rows[k].render = TabExpand(rows[k].row_content)

\* C7 witness: after edits, a row holds a tab behind another character, and
\* its render is one tab stop long.
C7_Witness ==
    /\ dirty > 0
    /\ \E k \in 1..Len(rows) :
         /\ Len(rows[k].row_content) = 2
         /\ rows[k].row_content[2] = TAB
         /\ Len(rows[k].render) = TAB_STOP

\* The rendered column of the cursor: the number of characters of the tab
\* expansion of what stands before it, 0 on the row past the last.
RenderedColumn ==
    IF cursor_y < Len(rows)
    THEN CharCount(TabExpand(Prefix(rows[cursor_y + 1].row_content, cursor_x)))
    ELSE 0

\* C8 -- Scroll invariant: after every frame, of the main loop or of the
\* prompt, the cursor's row and its rendered column are inside the viewport.
C8_ScrollInvariant ==
    pc \in {"key", "pkey"} =>
        /\ render_x = RenderedColumn
        /\ row_offset <= cursor_y
        /\ cursor_y < row_offset + ScreenRows
        /\ column_offset <= render_x
        /\ render_x < column_offset + ScreenCols

\* C8 witness: a frame has scrolled both ways, to a cursor behind a tab.
C8_Witness ==
    /\ pc = "key"
    /\ row_offset > 0
    /\ column_offset > 0
    /\ render_x >= TAB_STOP

\* C9 as stated -- Edit idempotence: a character typed and then removed with
\* Backspace leaves the row contents as before the character was typed and
\* dirty 2 greater.
C9_InsertThenBackspaceAnywhere ==
    (undo.stage = "done" /\ undo.key = "char") =>
        /\ Contents(rows) = Contents(undo.rows)
        /\ dirty = undo.dirty + 2

\* C9 amended -- the same when the character is typed with the cursor on an
\* existing row (cursor_y < number_of_rows()).
C9_InsertThenBackspace ==
    (undo.stage = "done" /\ undo.key = "char"
       /\ undo.cursor_y < Len(undo.rows)) =>
        /\ Contents(rows) = Contents(undo.rows)
        /\ dirty = undo.dirty + 2

\* C9 witness: a character was typed inside a row that had text on both
\* sides of the cursor, and Backspace has removed it.
C9_Witness ==
    /\ undo.stage = "done"
    /\ undo.key = "char"
    /\ undo.cursor_y < Len(undo.rows)
    /\ undo.cursor_x > 0
    /\ undo.cursor_x < Len(undo.rows[undo.cursor_y + 1].row_content)
    /\ pc = "frame"

\* C10 -- Newline split and rejoin: Enter at (r, c) on an existing row AB,
\* |A| = c, makes row r A and row r+1 B, shifts the later rows down by one
\* and puts the cursor at (r+1, 0); a Backspace next restores row r to AB,
\* the row count and the cursor (r, c).
C10_SplitAndRejoin ==
    (undo.key = "enter" /\ undo.cursor_y < Len(undo.rows)) =>
        LET r == undo.cursor_y
            c == undo.cursor_x
            before == Contents(undo.rows)
            now == Contents(rows)
            AB == before[r + 1]
        IN /\ undo.stage = "armed" =>
                /\ Len(now) = Len(before) + 1
                /\ now[r + 1] = SubSeq(AB, 1, c)
                /\ now[r + 2] = SubSeq(AB, c + 1, Len(AB))
                /\ \A k \in 1..r : now[k] = before[k]
                /\ \A k \in (r + 2)..Len(before) : now[k + 1] = before[k]
                /\ cursor_y = r + 1
                /\ cursor_x = 0
           /\ undo.stage = "done" =>
                /\ Len(now) = Len(before)
                /\ now[r + 1] = AB
                /\ cursor_y = r
                /\ cursor_x = c

\* C10 witness: a row was split between two different characters and
\* Backspace has joined the halves again.
C10_Witness ==
    /\ undo.stage = "done"
    /\ undo.key = "enter"
    /\ undo.cursor_y < Len(undo.rows)
    /\ LET AB == undo.rows[undo.cursor_y + 1].row_content
       IN /\ undo.cursor_x > 0
          /\ undo.cursor_x < Len(AB)
          /\ AB[1] # AB[Len(AB)]
    /\ pc = "frame"

\* The buffer is the single row 'a', tab, 'b'.
TabBuffer == Contents(rows) = <<TabFile>>

\* C11 as stated -- Tab scenario: the render of the single row 'a', tab, 'b'
\* is 'a', 7 spaces, 'b', and at the frame after 4 Right keys pressed from
\* column 0 render_x is 8.
C11_TabScenarioFourRights ==
    /\ TabBuffer => rows[1].render = <<97>> \o Spaces(7) \o <<98>>
    /\ (TabBuffer /\ pc = "key" /\ undo.rights = 4) => render_x = 8

\* C11 amended -- the same with 2 Right keys: they put the cursor behind the
\* tab, at rendered column 8.
C11_TabScenario ==
    /\ TabBuffer => rows[1].render = <<97>> \o Spaces(7) \o <<98>>
    /\ (TabBuffer /\ pc = "key" /\ undo.rights = 2) =>
          /\ render_x = 8
          /\ cursor_x = 2
          /\ cursor_y = 0

\* C11 witness: the frame after the second Right key on the loaded file.
C11_Witness ==
    /\ TabBuffer
    /\ pc = "key"
    /\ undo.rights = 2
    /\ dirty = 0
    /\ render_x = 8

\* C12 -- No embedded newline: in every reachable state no row's content
\* contains a line feed, whatever file was loaded and whatever keys were
\* pressed.
C12_NoEmbeddedNewline ==
    \A k \in 1..Len(rows) :
        \A i \in 1..Len(rows[k].row_content) : rows[k].row_content[i] # LF

\* C12 witness: Enter, the one edit since the load or the last save, has
\* given a named buffer as many rows as it can have.
C12_Witness ==
    /\ filename # <<>>
    /\ dirty = 1
    /\ Len(rows) = MaxBytes + 1

\* C13 -- Frame/key ordering: the first step after construction is a frame;
\* a key read (in the main loop or in the prompt) is followed by a frame or
\* by the end of the loop, never by another key read; a frame is followed by
\* a key read or by the end of the loop, never by another frame.  So exactly
\* one frame lies between two consecutive key reads.
C13_FrameKeyOrdering ==
    [][/\ pc = "new" => pc' \in {"frame", "drop"}
       /\ pc \in {"key", "pkey"} => pc' \in {"frame", "pframe", "drop"}
       /\ pc \in {"frame", "pframe"} => pc' \in {"key", "pkey", "drop"}
       /\ pc' \in {"key", "pkey"} => pc \in {"frame", "pframe"}]_vars

\* C13 witness: the key read after the frame that followed the Esc that
\* left a prompt in which a character had been typed.
C13_Witness ==
    /\ pc = "key"
    /\ message = MsgAborted
    /\ dirty > 0

C15_ConsistentIndexing ==
    cursor_y < Len(rows) =>
        /\ cursor_x <= Len(rows[cursor_y + 1].row_content)
        /\ IsCharBoundary(rows[cursor_y + 1].row_content, cursor_x)

\* A string without its character at position p; a sequence with v for its
\* element k, and one without its element k.
CharEnd(str, p) ==
    CHOOSE q \in (p + 1)..Len(str) :
        /\ q = Len(str) \/ ~IsCont(str[q + 1])
        /\ \A j \in (p + 1)..(q - 1) : IsCont(str[j + 1])
WithoutCharAt(str, p) ==
    SubSeq(str, 1, p) \o SubSeq(str, CharEnd(str, p) + 1, Len(str))
WithRow(cs, k, v) == [i \in 1..Len(cs) |-> IF i = k THEN v ELSE cs[i]]
WithoutRow(cs, k) == [i \in 1..(Len(cs) - 1) |-> IF i < k THEN cs[i] ELSE cs[i + 1]]

\* C16 -- Backspace: on the row past the last or at (0, 0) the rows, the
\* cursor and dirty stay; with cursor_x > 0 the character at cursor_x - 1 of
\* the current row goes, cursor_x is one less and dirty one more; at column 0
\* of a row r >= 1 that row is appended to row r - 1 and removed, the cursor
\* is at (r - 1, old length of row r - 1), dirty is one more and the other
\* rows keep their content and order.
C16_Backspace ==
    [][KeyBackspace =>
        LET r == cursor_y
            c == cursor_x
            before == Contents(rows)
            now == Contents(rows')
        IN IF r = Len(rows) \/ (r = 0 /\ c = 0)
           THEN /\ rows' = rows
                /\ cursor_x' = c /\ cursor_y' = r
                /\ dirty' = dirty
           ELSE IF c > 0
           THEN /\ now = WithRow(before, r + 1, WithoutCharAt(before[r + 1], c - 1))
                /\ cursor_x' = c - 1 /\ cursor_y' = r
                /\ dirty' = dirty + 1
           ELSE /\ now = WithoutRow(WithRow(before, r, before[r] \o before[r + 1]),
                                    r + 1)
                /\ Len(now) = Len(before) - 1
                /\ cursor_x' = Len(before[r]) /\ cursor_y' = r - 1
                /\ dirty' = dirty + 1]_vars

\* C17 -- Delete on an existing character or line end: with the cursor at
\* (r, c) on an existing row, Delete removes the character at column c when
\* c < len(row r), and joins row r + 1 onto row r when c = len(row r) and row
\* r + 1 exists; the cursor stays at (r, c) and dirty is one more.
C17_DeleteKey ==
    (undo.stage = "armed" /\ undo.key = "delete") =>
        LET r == undo.cursor_y
            c == undo.cursor_x
            before == Contents(undo.rows)
            now == Contents(rows)
        IN /\ (r < Len(before) /\ c < Len(before[r + 1])) =>
                /\ now = WithRow(before, r + 1, WithoutCharAt(before[r + 1], c))
                /\ cursor_x = c /\ cursor_y = r
                /\ dirty = undo.dirty + 1
           /\ (r + 1 < Len(before) /\ c = Len(before[r + 1])) =>
                /\ now = WithoutRow(WithRow(before, r + 1,
                                            before[r + 1] \o before[r + 2]), r + 2)
                /\ cursor_x = c /\ cursor_y = r
                /\ dirty = undo.dirty + 1

\* C17 witness: Delete at the end of a row that is not empty has joined the
\* next row, itself not empty, onto it.
C17_Witness ==
    /\ undo.stage = "armed"
    /\ undo.key = "delete"
    /\ undo.cursor_y + 1 < Len(undo.rows)
    /\ undo.cursor_x = Len(undo.rows[undo.cursor_y + 1].row_content)
    /\ undo.cursor_x > 0
    /\ Len(undo.rows[undo.cursor_y + 2].row_content) > 0
    /\ Len(rows) = Len(undo.rows) - 1
    /\ cursor_x = undo.cursor_x

\* A sequence with v added at its end.
WithLastRow(cs, v) == [i \in 1..(Len(cs) + 1) |-> IF i <= Len(cs) THEN cs[i] ELSE v]

\* C18 -- Character insertion: a character typed on the row past the last
\* makes a new last row holding just that character, with dirty 2 more; a
\* character typed on an existing row is inserted before position cursor_x,
\* with dirty 1 more; either way cursor_x is one more, cursor_y stays and the
\* other rows stay.
C18_CharInsertion ==
    (undo.stage = "armed" /\ undo.key = "char") =>
        LET r == undo.cursor_y
            c == undo.cursor_x
            before == Contents(undo.rows)
            now == Contents(rows)
        IN /\ \E ch \in TypedChars :
                IF r = Len(before)
                THEN /\ now = WithLastRow(before, ch)
                     /\ dirty = undo.dirty + 2
                ELSE /\ now = WithRow(before, r + 1,
                                      SubSeq(before[r + 1], 1, c) \o ch
                                        \o SubSeq(before[r + 1], c + 1,
                                                  Len(before[r + 1])))
                     /\ dirty = undo.dirty + 1
           /\ cursor_x = c + 1
           /\ cursor_y = r

\* C18 witness: a character has been typed on the row past the last of a
\* buffer that had rows.
C18_Witness ==
    /\ undo.stage = "armed"
    /\ undo.key = "char"
    /\ Len(undo.rows) >= 1
    /\ undo.cursor_y = Len(undo.rows)
    /\ Len(rows) = Len(undo.rows) + 1
    /\ dirty = undo.dirty + 2
    /\ cursor_x = 1

\* Where a page key is to put cursor_y, by the viewport of the last frame.
PageTarget(val) ==
    LET N == Len(rows)
        up == IF row_offset > ScreenRows THEN row_offset - ScreenRows ELSE 0
        edge == IF row_offset + ScreenRows - 1 < N
                THEN row_offset + ScreenRows - 1 ELSE N
        down == IF edge + ScreenRows < N THEN edge + ScreenRows ELSE N
    IN IF val = "PageUp" THEN up ELSE down

WithoutLastChar(str) ==
    IF str = <<>> THEN str
    ELSE LET p == CHOOSE p \in 0..(Len(str) - 1) :
                    /\ p = 0 \/ ~IsCont(str[p + 1])
                    /\ \A q \in (p + 1)..(Len(str) - 1) : IsCont(str[q + 1])
         IN SubSeq(str, 1, p)

RECURSIVE FirstChars(_, _)
FirstChars(str, n) ==
    IF n = 0 \/ str = <<>> THEN <<>>
    ELSE SubSeq(str, 1, CharLenAt(str, 0))
            \o FirstChars(SubSeq(str, CharLenAt(str, 0) + 1, Len(str)), n - 1)

\* C21 -- Cursor-to-render agreement: for every row of the buffer and every
\* cursor_x from 0 to the length of its content, get_render_x returns (the
\* slice row_content[..cursor_x] is taken on a character boundary) and what
\* it returns is the number of characters of render_row applied to the first
\* cursor_x characters of the content.
C21_CursorRenderAgreement ==
    \A k \in 1..Len(rows) :
        LET content == rows[k].row_content IN
        \A cx \in 0..Len(content) :
            /\ IsCharBoundary(content, cx)
            /\ get_render_x(content, cx)
                 = CharCount(render_row(FirstChars(content, cx)))

\* C22 -- Delete with nothing to delete: when Delete is pressed with the
\* cursor on the row past the last, or at the end of the last row, the rows,
\* dirty and the cursor position (cursor_y, cursor_x) are all as before.
C22_DeleteNothingNoOp ==
    (/\ undo.stage = "armed"
     /\ undo.key = "delete"
     /\ \/ undo.cursor_y = Len(undo.rows)
        \/ /\ undo.cursor_y = Len(undo.rows) - 1
           /\ undo.cursor_x = Len(undo.rows[undo.cursor_y + 1].row_content))
    => /\ rows = undo.rows
       /\ dirty = undo.dirty
       /\ cursor_y = undo.cursor_y
       /\ cursor_x = undo.cursor_x

\* The positions of the process at which the editor exists.
EditorLive == {"frame", "key", "pframe", "pkey"}

\* C23 -- Dirty tracks every mutation: while the editor exists, every step
\* that changes the content of a row or the number of rows leaves dirty > 0,
\* and the only step that takes dirty from a positive value back to 0 is a
\* successful save, which writes the rows as they are and leaves them alone;
\* so dirty = 0 only while the rows are those of the last successful save,
\* or of startup.
C23_DirtyTracksMutation ==
    /\ [][(/\ pc \in EditorLive /\ pc' \in EditorLive
           /\ Contents(rows') # Contents(rows))
          => dirty' > 0]_vars
    /\ [][(/\ pc \in EditorLive /\ pc' \in EditorLive
           /\ dirty > 0 /\ dirty' = 0)
          => /\ pc \in {"key", "pkey"}
             /\ filename' # <<>>
             /\ written' = <<Serialize(rows)>>
             /\ rows' = rows]_vars

\* C23 witness: a buffer was saved and has been changed once since; the
\* message of the save is still up.
C23_Witness ==
    /\ pc = "frame"
    /\ message.kind = "written"
    /\ rows # <<>>
    /\ dirty = 1

====
